---------------------------- MODULE Spec2Model ----------------------------
(* A model of cursor/wayland-cursor.c: the shm pool allocator, the theme   *)
(* loader built on it, the lazily created buffers and the frame selector.  *)
(*                                                                         *)
(* Pool sizes are naturals: within the bounds below every value stays far  *)
(* under INT_MAX, where C's unsigned/int arithmetic agrees with them.      *)
(* The uint32_t arithmetic of the frame selector and of total_delay wraps  *)
(* and is kept modulo UintMod, a word of WordBits bits.                    *)
EXTENDS Integers, Sequences, FiniteSets, TLC

VARIABLES pc, pool, theme, wire, alloc_log, reports, buffer_ret, frame_ret

vars == <<pc, pool, theme, wire, alloc_log, reports, buffer_ret, frame_ret>>

-----------------------------------------------------------------------------
(* Bounds *)

\* loader callbacks per xcursor_load_theme run
MaxCallbacks == 2
\* width of the scaled uint32_t
WordBits == 5
\* cursor names the loader reports
CursorNames == {"left_ptr", "xterm"}
\* frames (nimage) of one reported cursor
FrameCounts == {1, 2}
\* the frames the loader supplies: width, height, delay
LoaderFrames ==
    { [width |-> 1, height |-> 1, delay |-> 0],
      [width |-> 2, height |-> 2, delay |-> 3] }
\* the cursors (by position in the theme) whose images the application asks
\* buffers for
BufferCursors == {1}
\* the size argument of wl_cursor_theme_load
ThemeSizes == {1}
\* frame selector inputs: frames per cursor and per-frame delays
SelectorFrameCounts == {1, 2, 3}
SelectorDelays == {0, 1, 2, 3, 4, 2 ^ (WordBits - 1), 2 ^ WordBits - 1}

UintMod == 2 ^ WordBits
FrameCountsAll == FrameCounts \cup SelectorFrameCounts

NULL == 0

-----------------------------------------------------------------------------
(* cursor-data.h: the built-in table (name, width, height per entry) *)

cursor_metadata ==
    << [name |-> "bottom_left_corner", width |-> 1, height |-> 1],
       [name |-> "left_ptr", width |-> 2, height |-> 1],
       [name |-> "xterm", width |-> 1, height |-> 2] >>

-----------------------------------------------------------------------------
(* struct shm_pool and its operations.  A state st carries the pool, the   *)
(* requests sent to the shm service (wire) and the record of allocate      *)
(* calls (alloc_log).                                                      *)

\* a request on the wire: op, the object it names, and its argument
Req(op, obj, arg) == [op |-> op, obj |-> obj, arg |-> arg]

\* shm_pool_create: file, mapping, then wl_shm_create_pool
ShmPoolCreate(size) ==
    [ pool |-> [size |-> size, used |-> 0, mapped |-> TRUE, file_len |-> size,
                filled |-> {}],
      wire |-> << Req("create_pool", 0, size) >> ]

\* shm_pool_resize announcing the size before ftruncate is tried
ShmPoolResize_NotifyFirst(p, w, size, truncOK, mmapOK) ==
    IF ~truncOK
    THEN [ret |-> 0, pool |-> p, wire |-> Append(w, Req("resize_pool", 0, size))]
    ELSE [ret |-> 1,
          pool |-> [p EXCEPT !.file_len = size, !.mapped = mmapOK, !.size = size],
          wire |-> Append(w, Req("resize_pool", 0, size))]

\* shm_pool_resize replacing the file by an empty one of the new size
ShmPoolResize_FreshFile(p, w, size, truncOK, mmapOK) ==
    IF ~truncOK
    THEN [ret |-> 0, pool |-> p, wire |-> w]
    ELSE [ret |-> 1,
          pool |-> [p EXCEPT !.file_len = size, !.mapped = mmapOK, !.size = size,
                             !.filled = {}],
          wire |-> Append(w, Req("resize_pool", 0, size))]

\* shm_pool_resize: ftruncate, notify, remap.  truncOK and mmapOK are the
\* outcomes of ftruncate and of mmap.  ftruncate to a larger size keeps the
\* bytes of the file (filled: the ranges <<offset, size>> that hold the
\* pixels copied into them).
ShmPoolResize(p, w, size, truncOK, mmapOK) ==
    IF ~truncOK
    THEN [ret |-> 0, pool |-> p, wire |-> w]
    ELSE [ret |-> 1,
          pool |-> [p EXCEPT !.file_len = size, !.mapped = mmapOK, !.size = size],
          wire |-> Append(w, Req("resize_pool", 0, size))]

\* shm_pool_allocate reading the offset after used was advanced
ShmPoolAllocate_OffsetAfter(p, w, size, truncOK, mmapOK) ==
    LET need == p.used + size > p.size
        r == IF need
             THEN ShmPoolResize(p, w, 2 * p.size + size, truncOK, mmapOK)
             ELSE [ret |-> 1, pool |-> p, wire |-> w]
    IN  IF r.ret = 0
        THEN [offset |-> -1, pool |-> r.pool, wire |-> r.wire, resized |-> FALSE]
        ELSE [offset |-> r.pool.used + size,
              pool |-> [r.pool EXCEPT !.used = @ + size],
              wire |-> r.wire,
              resized |-> need]

\* shm_pool_allocate growing to twice the size, without the request added
ShmPoolAllocate_DoubleOnly(p, w, size, truncOK, mmapOK) ==
    LET need == p.used + size > p.size
        r == IF need
             THEN ShmPoolResize(p, w, 2 * p.size, truncOK, mmapOK)
             ELSE [ret |-> 1, pool |-> p, wire |-> w]
    IN  IF r.ret = 0
        THEN [offset |-> -1, pool |-> r.pool, wire |-> r.wire, resized |-> FALSE]
        ELSE [offset |-> r.pool.used,
              pool |-> [r.pool EXCEPT !.used = @ + size],
              wire |-> r.wire,
              resized |-> need]

\* shm_pool_allocate: returns the offset, or -1
ShmPoolAllocate(p, w, size, truncOK, mmapOK) ==
    LET need == p.used + size > p.size
        r == IF need
             THEN ShmPoolResize(p, w, 2 * p.size + size, truncOK, mmapOK)
             ELSE [ret |-> 1, pool |-> p, wire |-> w]
    IN  IF r.ret = 0
        THEN [offset |-> -1, pool |-> r.pool, wire |-> r.wire, resized |-> FALSE]
        ELSE [offset |-> r.pool.used,
              pool |-> [r.pool EXCEPT !.used = @ + size],
              wire |-> r.wire,
              resized |-> need]

\* one entry of alloc_log: what a call of shm_pool_allocate saw and did
LogEntry(p, w, size, a) ==
    [ size |-> size, ret |-> a.offset,
      pre_used |-> p.used, pre_size |-> p.size, pre_wire |-> Len(w),
      post_used |-> a.pool.used, post_size |-> a.pool.size,
      post_wire |-> Len(a.wire),
      pre_filled |-> p.filled, post_filled |-> a.pool.filled,
      post_mapped |-> a.pool.mapped ]

-----------------------------------------------------------------------------
(* Cursors.  An image records the bytes the memcpy into the pool copied.   *)
(* acc carries pool, wire, log, the images built so far, total_delay and   *)
(* ub: whether some memcpy had a destination outside the mapped pool.      *)

\* the one element of a singleton
The(S) == CHOOSE x \in S : TRUE

\* size = width * height * 4
FrameSize(width, height) == width * height * 4

\* memcpy given the pixel count where the byte count belongs
Memcpy_PixelCount(image, size) == [image EXCEPT !.copied = size \div 4]

\* memcpy(theme->pool->data + image->offset, pixels, size)
Memcpy(image, size) == [image EXCEPT !.copied = size]

\* the destination theme->pool->data + offset is mapped memory
ValidDest(p, offset) == p.mapped /\ offset >= 0

\* the bytes of the pool after the memcpy of size bytes to data + offset:
\* with a mapping, the range written holds the new pixels and every range
\* it overlaps has lost its own; without one nothing reaches the file
PoolWrite(p, offset, size) ==
    IF ~p.mapped
    THEN p
    ELSE [p EXCEPT !.filled =
             {r \in @ : r[1] + r[2] <= offset \/ offset + size <= r[1]}
                \cup (IF offset >= 0 THEN {<<offset, size>>} ELSE {})]

\* one iteration of the loop of wl_cursor_create_from_xcursor_images
CreateFrame(acc, f, truncOK, mmapOK) ==
    LET size == FrameSize(f.width, f.height)
        a == ShmPoolAllocate(acc.pool, acc.wire, size, truncOK, mmapOK)
        image == [width |-> f.width, height |-> f.height, delay |-> f.delay,
                  offset |-> a.offset, buffer |-> NULL, copied |-> 0]
    IN  [ pool |-> PoolWrite(a.pool, a.offset, size), wire |-> a.wire,
          log |-> Append(acc.log, LogEntry(acc.pool, acc.wire, size, a)),
          imgs |-> Append(acc.imgs, Memcpy(image, size)),
          total_delay |-> (acc.total_delay + f.delay) % UintMod,
          ub |-> acc.ub \/ ~ValidDest(a.pool, a.offset) ]

\* the loop; each iteration's result is bound once and handed on
RECURSIVE CreateFrames(_, _, _, _, _)
CreateFrames(acc, frames, i, truncOK, mmapOK) ==
    IF i > Len(frames)
    THEN acc
    ELSE The({ CreateFrames(next, frames, i + 1, truncOK, mmapOK) :
                  next \in {CreateFrame(acc, frames[i], truncOK[i], mmapOK[i])} })

Acc(p, w, log) ==
    [pool |-> p, wire |-> w, log |-> log, imgs |-> << >>, total_delay |-> 0,
     ub |-> FALSE]

\* wl_cursor_create_from_xcursor_images: the cursor and the state it leaves
CreateFromXcursorImages(p, w, log, images, truncOK, mmapOK) ==
    LET acc == CreateFrames(Acc(p, w, log), images.images, 1, truncOK, mmapOK)
    IN  [ cursor |-> [name |-> images.name, images |-> acc.imgs,
                      total_delay |-> acc.total_delay],
          pool |-> acc.pool, wire |-> acc.wire, log |-> acc.log, ub |-> acc.ub ]

\* wl_cursor_create_from_data: one frame, delay 0, total_delay 0
CreateFromData(p, w, log, metadata, truncOK, mmapOK) ==
    LET f == [width |-> metadata.width, height |-> metadata.height, delay |-> 0]
        acc == CreateFrame(Acc(p, w, log), f, truncOK, mmapOK)
    IN  [ cursor |-> [name |-> metadata.name, images |-> acc.imgs,
                      total_delay |-> 0],
          pool |-> acc.pool, wire |-> acc.wire, log |-> acc.log, ub |-> acc.ub ]

\* wl_cursor_theme_get_cursor whose loop stops one cursor early
ThemeGetCursor_SkipLast(th, name) ==
    LET hits == {i \in 1..(th.cursor_count - 1) : th.cursors[i].name = name}
    IN  IF hits = {} THEN NULL
        ELSE CHOOSE i \in hits : \A j \in hits : i <= j

\* wl_cursor_theme_get_cursor: the index of the first cursor of that name,
\* or NULL
ThemeGetCursor(th, name) ==
    LET hits == {i \in 1..th.cursor_count : th.cursors[i].name = name}
    IN  IF hits = {} THEN NULL
        ELSE CHOOSE i \in hits : \A j \in hits : i <= j

\* load_default_theme: cursor_count is the table's length and every slot is
\* filled from its entry.  acc carries pool, wire, log, cursors, ub.
\* theme->cursors[i] = wl_cursor_create_from_data(&cursor_metadata[i], theme)
DefaultCursor(acc, i, truncOK, mmapOK) ==
    The({ [pool |-> r.pool, wire |-> r.wire, log |-> r.log,
           cursors |-> Append(acc.cursors, r.cursor), ub |-> acc.ub \/ r.ub] :
             r \in {CreateFromData(acc.pool, acc.wire, acc.log,
                                   cursor_metadata[i], truncOK, mmapOK)} })

RECURSIVE DefaultCursors(_, _, _, _)
DefaultCursors(acc, i, truncOK, mmapOK) ==
    IF i > Len(cursor_metadata)
    THEN acc
    ELSE The({ DefaultCursors(next, i + 1, truncOK, mmapOK) :
                  next \in {DefaultCursor(acc, i, truncOK[i], mmapOK[i])} })

\* load_default_theme taking the count one short of the table
LoadDefaultTheme_OneShort(p, w, log, truncOK, mmapOK) ==
    LET acc == DefaultCursors([pool |-> p, wire |-> w, log |-> log,
                               cursors |-> << >>, ub |-> FALSE],
                              1, truncOK, mmapOK)
    IN  [ theme |-> [cursor_count |-> Len(cursor_metadata) - 1,
                     cursors |-> SubSeq(acc.cursors, 1, Len(cursor_metadata) - 1)],
          pool |-> acc.pool, wire |-> acc.wire, log |-> acc.log, ub |-> acc.ub ]

LoadDefaultTheme(p, w, log, truncOK, mmapOK) ==
    LET acc == DefaultCursors([pool |-> p, wire |-> w, log |-> log,
                               cursors |-> << >>, ub |-> FALSE],
                              1, truncOK, mmapOK)
    IN  [ theme |-> [cursor_count |-> Len(cursor_metadata),
                     cursors |-> acc.cursors],
          pool |-> acc.pool, wire |-> acc.wire, log |-> acc.log, ub |-> acc.ub ]

-----------------------------------------------------------------------------
(* The inputs *)

\* what the loader hands to load_callback: a name and nimage >= 1 frames
XcursorImages ==
    UNION { [name : CursorNames, images : [1..n -> LoaderFrames]] : n \in FrameCounts }

\* outcomes of the ftruncate and mmap calls of the allocations of one handler
Outcomes(n) == [1..n -> BOOLEAN]

NoPool == [size |-> 0, used |-> 0, mapped |-> FALSE, file_len |-> 0, filled |-> {}]
NoRet == [cursor |-> 0, image |-> 0, ret |-> NULL, cached |-> FALSE]
NoFrame == [time |-> 0, status |-> "none", ret |-> 0]

-----------------------------------------------------------------------------
(* The operations *)

Init ==
    /\ pc = "init"
    /\ pool = NoPool
    /\ theme = [cursor_count |-> 0, cursors |-> << >>]
    /\ wire = << >>
    /\ alloc_log = << >>
    /\ reports = << >>
    /\ buffer_ret = NoRet
    /\ frame_ret = NoFrame

\* wl_cursor_theme_load up to the call of xcursor_load_theme.  createOK: the
\* file and the mapping of shm_pool_create succeeded.
ThemeLoad(size, createOK) ==
    /\ pc = "init"
    /\ IF createOK
       THEN LET r == ShmPoolCreate(size * size * 4)
            IN  /\ pc' = "loading"
                /\ pool' = r.pool
                /\ wire' = r.wire
       ELSE /\ pc' = "failed"
            /\ UNCHANGED <<pool, wire>>
    /\ UNCHANGED <<theme, alloc_log, reports, buffer_ret, frame_ret>>

\* load_callback.  survive: the outcome of a memcpy outside mapped
\* memory, which is undefined: the process goes on or it dies.
LoadCallback(images, truncOK, mmapOK, survive) ==
    /\ pc = "loading"
    /\ Len(reports) < MaxCallbacks
    /\ reports' = Append(reports, images)
    /\ IF ThemeGetCursor(theme, images.name) # NULL
       THEN UNCHANGED <<pc, pool, theme, wire, alloc_log>>
       ELSE \E r \in {CreateFromXcursorImages(pool, wire, alloc_log, images,
                                               truncOK, mmapOK)} :
                /\ pool' = r.pool
                /\ wire' = r.wire
                /\ alloc_log' = r.log
                /\ IF r.ub /\ ~survive
                   THEN /\ pc' = "crashed"
                        /\ UNCHANGED theme
                   ELSE /\ theme' = [cursor_count |-> theme.cursor_count + 1,
                                     cursors |-> Append(theme.cursors, r.cursor)]
                        /\ UNCHANGED pc
    /\ UNCHANGED <<buffer_ret, frame_ret>>

\* xcursor_load_theme returns; wl_cursor_theme_load falls back to the
\* built-in table when no cursor was loaded, and returns the theme
ThemeLoadReturn(truncOK, mmapOK, survive) ==
    /\ pc = "loading"
    /\ IF theme.cursor_count = 0
       THEN \E r \in {LoadDefaultTheme(pool, wire, alloc_log, truncOK, mmapOK)} :
                /\ pool' = r.pool
                /\ wire' = r.wire
                /\ alloc_log' = r.log
                /\ IF r.ub /\ ~survive
                   THEN /\ pc' = "crashed"
                        /\ UNCHANGED theme
                   ELSE /\ pc' = "loaded"
                        /\ theme' = r.theme
       ELSE /\ pc' = "loaded"
            /\ UNCHANGED <<pool, theme, wire, alloc_log>>
    /\ UNCHANGED <<reports, buffer_ret, frame_ret>>

\* the create_buffer requests sent so far
Created(w) == {k \in 1..Len(w) : w[k].op = "create_buffer"}

\* the images of the theme, as <<cursor, frame>>
Images(th) ==
    {ci \in (1..Len(th.cursors)) \X FrameCountsAll :
        ci[2] <= Len(th.cursors[ci[1]].images)}

\* the images that hold a buffer
Buffered(th) == {ci \in Images(th) : th.cursors[ci[1]].images[ci[2]].buffer # NULL}

\* wl_cursor_image_get_buffer without the test of image->buffer
GetBuffer_NoCache(c, i) ==
    /\ pc = "loaded"
    /\ c \in 1..theme.cursor_count
    /\ i \in 1..Len(theme.cursors[c].images)
    /\ LET image == theme.cursors[c].images[i]
           handle == Len(wire) + 1
       IN  /\ c \in BufferCursors
           /\ wire' = Append(wire, Req("create_buffer", handle, image.offset))
           /\ theme' = [theme EXCEPT !.cursors[c].images[i].buffer = handle]
           /\ buffer_ret' = [cursor |-> c, image |-> i, ret |-> handle,
                             cached |-> image.buffer # NULL]
    /\ UNCHANGED <<pc, pool, alloc_log, reports, frame_ret>>

\* wl_cursor_image_get_buffer on frame i of cursor c
GetBuffer(c, i) ==
    /\ pc = "loaded"
    /\ c \in 1..theme.cursor_count
    /\ i \in 1..Len(theme.cursors[c].images)
    /\ LET image == theme.cursors[c].images[i]
           handle == Len(wire) + 1
       IN  IF image.buffer = NULL
           THEN /\ c \in BufferCursors
                /\ wire' = Append(wire, Req("create_buffer", handle, image.offset))
                /\ theme' = [theme EXCEPT !.cursors[c].images[i].buffer = handle]
                /\ buffer_ret' = [cursor |-> c, image |-> i, ret |-> handle,
                                cached |-> FALSE]
           ELSE /\ buffer_ret' = [cursor |-> c, image |-> i, ret |-> image.buffer,
                                cached |-> TRUE]
                /\ UNCHANGED <<wire, theme>>
    /\ UNCHANGED <<pc, pool, alloc_log, reports, frame_ret>>

\* wl_cursor_image_destroy: the buffer, if there is one, is destroyed
ImageDestroy(w, image) ==
    IF image.buffer # NULL
    THEN Append(w, Req("destroy_buffer", image.buffer, 0))
    ELSE w

\* wl_cursor_destroy: the images from i on, in order
RECURSIVE CursorDestroy(_, _, _)
CursorDestroy(w, images, i) ==
    IF i > Len(images)
    THEN w
    ELSE CursorDestroy(ImageDestroy(w, images[i]), images, i + 1)

\* the loop of wl_cursor_theme_destroy: the cursors from i on, in order
RECURSIVE CursorsDestroy(_, _, _)
CursorsDestroy(w, th, i) ==
    IF i > th.cursor_count
    THEN w
    ELSE CursorsDestroy(CursorDestroy(w, th.cursors[i].images, 1), th, i + 1)

\* shm_pool_destroy: munmap, wl_shm_pool_destroy, close
ShmPoolDestroy(p, w) ==
    [ pool |-> [p EXCEPT !.mapped = FALSE],
      wire |-> Append(w, Req("destroy_pool", 0, 0)) ]

\* the requests of wl_cursor_theme_destroy with the pool destroyed first
DestroyRequests_PoolFirst(th, p, w) ==
    [ pool |-> ShmPoolDestroy(p, w).pool,
      wire |-> CursorsDestroy(ShmPoolDestroy(p, w).wire, th, 1) ]

\* the requests of wl_cursor_theme_destroy: the cursors, then the pool
DestroyRequests(th, p, w) ==
    ShmPoolDestroy(p, CursorsDestroy(w, th, 1))

\* wl_cursor_theme_destroy; the theme and its cursors are freed
ThemeDestroy ==
    /\ pc = "loaded"
    /\ \E r \in {DestroyRequests(theme, pool, wire)} :
          /\ pool' = r.pool
          /\ wire' = r.wire
    /\ theme' = [cursor_count |-> 0, cursors |-> << >>]
    /\ pc' = "destroyed"
    /\ UNCHANGED <<alloc_log, reports, buffer_ret, frame_ret>>

Next ==
    \/ \E size \in ThemeSizes, createOK \in BOOLEAN : ThemeLoad(size, createOK)
    \/ \E images \in XcursorImages, survive \in BOOLEAN :
          \E truncOK, mmapOK \in Outcomes(Len(images.images)) :
             LoadCallback(images, truncOK, mmapOK, survive)
    \/ \E truncOK, mmapOK \in Outcomes(Len(cursor_metadata)), survive \in BOOLEAN :
          \* the outcomes are read by the fallback only
          /\ theme.cursor_count # 0 =>
                (survive /\ \A k \in DOMAIN truncOK : truncOK[k] /\ mmapOK[k])
          /\ ThemeLoadReturn(truncOK, mmapOK, survive)
    \/ \E ci \in Images(theme) : GetBuffer(ci[1], ci[2])
    \/ ThemeDestroy

Spec == Init /\ [][Next]_vars

-----------------------------------------------------------------------------
(* The frame selector *)

\* uint32_t subtraction
Sub32(a, b) == (a - b + UintMod) % UintMod

\* the loop of wl_cursor_frame with the test (t - delay) <= t
RECURSIVE FrameWalk_LessEq(_, _, _)
FrameWalk_LessEq(images, i, t) ==
    IF i >= Len(images)
    THEN [status |-> "oob", ret |-> i]
    ELSE IF Sub32(t, images[i + 1].delay) <= t
         THEN FrameWalk_LessEq(images, i + 1, Sub32(t, images[i + 1].delay))
         ELSE [status |-> "ok", ret |-> i]

\* the loop of wl_cursor_frame from index i (counted from 0) with t left.
\* status "oob": the loop reads images[i] past the end of the array.
RECURSIVE FrameWalk(_, _, _)
FrameWalk(images, i, t) ==
    IF i >= Len(images)
    THEN [status |-> "oob", ret |-> i]
    ELSE IF Sub32(t, images[i + 1].delay) < t
         THEN FrameWalk(images, i + 1, Sub32(t, images[i + 1].delay))
         ELSE [status |-> "ok", ret |-> i]

\* wl_cursor_frame without the test of image_count
WlCursorFrame_NoSingleTest(cursor, time, trap, t0) ==
    IF cursor.total_delay = 0
    THEN IF trap
         THEN [status |-> "trap", ret |-> 0]
         ELSE FrameWalk(cursor.images, 0, t0)
    ELSE FrameWalk(cursor.images, 0, time % cursor.total_delay)

\* wl_cursor_frame walking from the elapsed time itself, not reduced
WlCursorFrame_NoModulo(cursor, time, trap, t0) ==
    IF Len(cursor.images) = 1
    THEN [status |-> "ok", ret |-> 0]
    ELSE IF cursor.total_delay = 0
         THEN IF trap
              THEN [status |-> "trap", ret |-> 0]
              ELSE FrameWalk(cursor.images, 0, t0)
         ELSE FrameWalk(cursor.images, 0, time)

\* wl_cursor_frame.  time % 0 is undefined: it traps, or it leaves some
\* value t0 in t.
WlCursorFrame(cursor, time, trap, t0) ==
    IF Len(cursor.images) = 1
    THEN [status |-> "ok", ret |-> 0]
    ELSE IF cursor.total_delay = 0
         THEN IF trap
              THEN [status |-> "trap", ret |-> 0]
              ELSE FrameWalk(cursor.images, 0, t0)
         ELSE FrameWalk(cursor.images, 0, time % cursor.total_delay)

Times == 0..(UintMod - 1)

\* the call evaluates time % 0: it traps on a build where that traps
DivByZero(cursor) == WlCursorFrame(cursor, 0, TRUE, 0).status = "trap"

\* The selector reads the cursor and writes nothing, so a behaviour holds
\* one call: a second one would start from the same cursor.
CursorFrame(c, time) ==
    /\ pc = "loaded"
    /\ frame_ret = NoFrame
    /\ c \in 1..theme.cursor_count
    /\ \E trap \in (IF DivByZero(theme.cursors[c]) THEN BOOLEAN ELSE {FALSE}),
          t0 \in (IF DivByZero(theme.cursors[c]) THEN Times ELSE {0}) :
          \E r \in {WlCursorFrame(theme.cursors[c], time, trap, t0)} :
              /\ frame_ret' = [time |-> time, status |-> r.status, ret |-> r.ret]
              /\ pc' = IF r.status = "trap" THEN "crashed" ELSE pc
    /\ UNCHANGED <<pool, theme, wire, alloc_log, reports, buffer_ret>>

\* a theme of one cursor, loaded from one report of the loader whose frames
\* have the delays d
SelectorInput(d) ==
    [name |-> "left_ptr",
     images |-> [k \in DOMAIN d |-> [width |-> 1, height |-> 1, delay |-> d[k]]]]

FrameInit ==
    \E n \in SelectorFrameCounts : \E d \in [1..n -> SelectorDelays] :
       LET images == SelectorInput(d)
           p == ShmPoolCreate(4)
           ok == [k \in 1..n |-> TRUE]
           r == CreateFromXcursorImages(p.pool, p.wire, << >>, images, ok, ok)
       IN  /\ pc = "loaded"
           /\ pool = r.pool
           /\ theme = [cursor_count |-> 1, cursors |-> << r.cursor >>]
           /\ wire = r.wire
           /\ alloc_log = r.log
           /\ reports = << images >>
           /\ buffer_ret = NoRet
           /\ frame_ret = NoFrame

FrameNext ==
    \E time \in Times : CursorFrame(1, time)

FrameSpec == FrameInit /\ [][FrameNext]_vars

-----------------------------------------------------------------------------
(* The pool allocator *)

\* the calls of shm_pool_allocate that returned an offset
Successful(log) == {k \in 1..Len(log) : log[k].ret >= 0}

\* the sum of the sizes of the successful calls among the first k
RECURSIVE SumSizes(_, _)
SumSizes(log, k) ==
    IF k = 0 THEN 0
    ELSE SumSizes(log, k - 1) + (IF log[k].ret >= 0 THEN log[k].size ELSE 0)

\* the ranges [offset, offset + size) of calls j and k share no byte
Disjoint(log, j, k) ==
    \/ log[j].ret + log[j].size <= log[k].ret
    \/ log[k].ret + log[k].size <= log[j].ret

\* C1: each successful shm_pool_allocate returns the sum of the sizes of the
\* successful calls before it and leaves used at the sum of the sizes so
\* far; the returned ranges are pairwise disjoint.
C1_OffsetsAreSums ==
    /\ \A k \in Successful(alloc_log) :
          /\ alloc_log[k].ret = SumSizes(alloc_log, k - 1)
          /\ alloc_log[k].post_used = SumSizes(alloc_log, k)
    /\ pool.used = SumSizes(alloc_log, Len(alloc_log))
    /\ \A j, k \in Successful(alloc_log) : j # k => Disjoint(alloc_log, j, k)

\* three allocations succeeded, one of them after a growth
C1_Witness ==
    /\ Cardinality(Successful(alloc_log)) >= 3
    /\ \E k \in Successful(alloc_log) : alloc_log[k].post_size > alloc_log[k].pre_size

\* C2: used <= size in every state of the pool, and after every call of
\* shm_pool_allocate, whether it grew the pool, failed to, or did neither.
C2_UsedWithinSize ==
    /\ pool.used <= pool.size
    /\ \A k \in 1..Len(alloc_log) : alloc_log[k].post_used <= alloc_log[k].post_size

\* a growth failed and a later one succeeded
C2_Witness ==
    \E j, k \in 1..Len(alloc_log) :
       /\ j < k
       /\ alloc_log[j].ret < 0
       /\ alloc_log[k].ret >= 0
       /\ alloc_log[k].post_size > alloc_log[k].pre_size

\* C4: a shm_pool_allocate that fails leaves size and used as they were and
\* sends no request to the pool handle.
C4_FailedGrowthChangesNothing ==
    \A k \in 1..Len(alloc_log) :
       alloc_log[k].ret < 0 =>
          /\ alloc_log[k].post_size = alloc_log[k].pre_size
          /\ alloc_log[k].post_used = alloc_log[k].pre_used
          /\ alloc_log[k].post_wire = alloc_log[k].pre_wire

\* an allocation needed growth and failed, with something already handed out
C4_Witness ==
    \E k \in 1..Len(alloc_log) :
       /\ alloc_log[k].ret < 0
       /\ alloc_log[k].pre_used > 0
       /\ pool.used = alloc_log[k].pre_used

-----------------------------------------------------------------------------
(* Theme load *)

\* image ci = <<cursor, frame>> of theme th
Image(th, ci) == th.cursors[ci[1]].images[ci[2]]

\* the theme's cursors come from the loader
LoaderSupplied == reports # << >>

\* C3: a loader-supplied cursor one of whose frames failed to allocate is
\* not linked into the theme: no image of the theme records a failed
\* allocation.
C3_FailedCursorAbandoned ==
    LoaderSupplied => \A ci \in Images(theme) : Image(theme, ci).offset >= 0

\* C5: a create_buffer request is sent only once wl_cursor_theme_load has
\* returned, and for an image all of whose width * height * 4 bytes have
\* been copied.
C5_WriteThenPublish ==
    [][ \A k \in Created(wire') \ Created(wire) :
           /\ pc = "loaded"
           /\ \E ci \in Images(theme) :
                 /\ Image(theme, ci).buffer = NULL
                 /\ Image(theme', ci).buffer = wire'[k].obj
                 /\ wire'[k].arg = Image(theme, ci).offset
                 /\ Image(theme, ci).copied =
                       Image(theme, ci).width * Image(theme, ci).height * 4 ]_vars

\* a buffer exists for a frame of more than one pixel
C5_Witness ==
    \E ci \in Buffered(theme) :
       /\ Image(theme, ci).width * Image(theme, ci).height > 1
       /\ \E k \in Created(wire) : wire[k].obj = Image(theme, ci).buffer

\* C6: an image that holds a buffer keeps it, a call of
\* wl_cursor_image_get_buffer on it returns it, and the create_buffer
\* requests number the images that hold a buffer: one request per image.
C6_GetBufferIdempotent ==
    [][ pc' = "loaded" =>
          /\ \A ci \in Buffered(theme) :
                /\ Image(theme', ci).buffer = Image(theme, ci).buffer
                /\ (buffer_ret'.cursor = ci[1] /\ buffer_ret'.image = ci[2])
                      => buffer_ret'.ret = Image(theme, ci).buffer
          /\ Cardinality(Created(wire')) = Cardinality(Buffered(theme')) ]_vars

\* a call found the buffer of an earlier call
C6_Witness ==
    /\ buffer_ret.cached
    /\ buffer_ret.ret # NULL
    /\ Image(theme, <<buffer_ret.cursor, buffer_ret.image>>).buffer = buffer_ret.ret

\* the reports of a name, in order
ReportsOf(rep, name) == {k \in 1..Len(rep) : rep[k].name = name}
FirstReport(rep, name) ==
    rep[CHOOSE k \in ReportsOf(rep, name) : \A j \in ReportsOf(rep, name) : k <= j]

\* the cursor was built from the report: same frames, in order
BuiltFrom(cursor, images) ==
    /\ Len(cursor.images) = Len(images.images)
    /\ \A i \in 1..Len(cursor.images) :
          /\ cursor.images[i].width = images.images[i].width
          /\ cursor.images[i].height = images.images[i].height
          /\ cursor.images[i].delay = images.images[i].delay

\* C7: after every step no two cursors of the theme share a name, each
\* loader-supplied cursor is built from the first report of its name, and a
\* report of a name the theme holds changes neither pool nor cursor list.
C7_NamesUnique ==
    [][ /\ \A i, j \in 1..theme'.cursor_count :
              i # j => theme'.cursors[i].name # theme'.cursors[j].name
        /\ reports' # << >> =>
              \A i \in 1..theme'.cursor_count :
                 /\ ReportsOf(reports', theme'.cursors[i].name) # {}
                 /\ BuiltFrom(theme'.cursors[i],
                              FirstReport(reports', theme'.cursors[i].name))
        /\ (/\ Len(reports') > Len(reports)
            /\ \E i \in 1..theme.cursor_count :
                  theme.cursors[i].name = reports'[Len(reports')].name)
              => UNCHANGED <<pool, theme, wire, alloc_log>> ]_vars

\* the loader reported a name twice with different frames and the theme
\* holds one cursor of it
C7_Witness ==
    \E j, k \in 1..Len(reports) :
       /\ j < k
       /\ reports[j].name = reports[k].name
       /\ reports[j].images # reports[k].images
       /\ Cardinality({i \in 1..theme.cursor_count :
                          theme.cursors[i].name = reports[j].name}) = 1

\* C8: when the loader reported no cursor, the returned theme has one
\* cursor per entry of the built-in table, each of one frame.
C8_FallbackCount ==
    (pc = "loaded" /\ reports = << >>) =>
       /\ theme.cursor_count = Len(cursor_metadata)
       /\ Len(theme.cursors) = theme.cursor_count
       /\ \A i \in 1..theme.cursor_count :
             /\ Len(theme.cursors[i].images) = 1
             /\ theme.cursors[i].name = cursor_metadata[i].name

\* the load returned without a report
C8_Witness ==
    pc = "loaded" /\ reports = << >> /\ theme.cursor_count > 0

-----------------------------------------------------------------------------
(* Frame selection *)

TheCursor == theme.cursors[1]

\* the sum of the delays of the first i frames, unwrapped
RECURSIVE Cum(_, _)
Cum(images, i) == IF i = 0 THEN 0 ELSE Cum(images, i - 1) + images[i].delay

\* a call on a cursor of several frames whose total_delay is not 0
Animated ==
    /\ frame_ret.status # "none"
    /\ Len(TheCursor.images) > 1
    /\ TheCursor.total_delay > 0

\* C9: for a cursor of several frames with total_delay > 0, the index i
\* that wl_cursor_frame returns has t = time mod total_delay in
\* [cum_i, cum_i + delay_i), whatever the delays, zero ones included.
C9_FrameInWindow ==
    Animated =>
       LET t == frame_ret.time % TheCursor.total_delay
           i == frame_ret.ret
       IN  /\ frame_ret.status = "ok"
           /\ i < Len(TheCursor.images)
           /\ Cum(TheCursor.images, i) <= t
           /\ t < Cum(TheCursor.images, i) + TheCursor.images[i + 1].delay

\* the delays of the cursor, in order
Delays == [k \in 1..Len(TheCursor.images) |-> TheCursor.images[k].delay]

\* the scaled example: delays 2, 4, 3 stand for 100, 200, 150
ExampleHolds ==
    Delays = <<2, 4, 3>> =>
       /\ frame_ret.time \in {0, 9, 18} => frame_ret.ret = 0
       /\ frame_ret.time = 3 => frame_ret.ret = 1
       /\ frame_ret.time = 8 => frame_ret.ret = 2

\* C10: for a cursor of several frames with total_delay > 0, the frame of
\* time e is the frame of e + k * total_delay for every such time within
\* the unsigned range, and a multiple of total_delay selects frame 0.
C10_FramePeriodic ==
    Animated =>
       /\ frame_ret.status = "ok"
       /\ \A e \in Times :
             (e % TheCursor.total_delay = frame_ret.time % TheCursor.total_delay)
                => WlCursorFrame(TheCursor, e, FALSE, 0).ret = frame_ret.ret
       /\ frame_ret.time % TheCursor.total_delay = 0 => frame_ret.ret = 0
       /\ ExampleHolds

\* the call for twice the period of the example returned frame 0
C10_Witness ==
    /\ Animated
    /\ Delays = <<2, 4, 3>>
    /\ frame_ret.time = 18
    /\ frame_ret.ret = 0

\* C11: on a cursor of one frame wl_cursor_frame returns 0 for every time
\* and every delay of that frame, delay 0 included, and does not evaluate
\* time % total_delay: no call on such a cursor traps.
C11_SingleFrameZero ==
    (frame_ret.status # "none" /\ Len(TheCursor.images) = 1) =>
       /\ frame_ret.status = "ok"
       /\ frame_ret.ret = 0
       /\ pc = "loaded"

\* a call at a time other than 0 on a cursor whose one frame has delay 0
C11_Witness ==
    /\ Len(TheCursor.images) = 1
    /\ TheCursor.images[1].delay = 0
    /\ TheCursor.total_delay = 0
    /\ frame_ret.status = "ok"
    /\ frame_ret.time > 0

\* a call on a cursor of several frames, each of delay 0, has ended
AllZeroCall ==
    /\ frame_ret.status # "none"
    /\ Len(TheCursor.images) > 1
    /\ \A k \in 1..Len(TheCursor.images) : TheCursor.images[k].delay = 0

\* C17 as stated: on a cursor of several frames, each of delay 0, the call
\* of wl_cursor_frame never ends: it neither returns nor traps.
C17_NeverEnds ==
    ~AllZeroCall

\* C17 as amended: on such a cursor the call evaluates time % 0, and either
\* traps there or goes on into the loop, whose test (t - 0) < t is false at
\* once: it returns 0.
C17_TrapsOrReturnsZero ==
    AllZeroCall =>
       \/ frame_ret.status = "trap" /\ pc = "crashed"
       \/ frame_ret.status = "ok" /\ frame_ret.ret = 0

\* the call went on past time % 0 and returned
C17_Witness ==
    /\ AllZeroCall
    /\ TheCursor.total_delay = 0
    /\ frame_ret.status = "ok"
    /\ frame_ret.ret = 0

\* C18: for a cursor of n >= 2 frames with total_delay (the wrapped sum)
\* above 0 and every time, wl_cursor_frame returns an index in 0..n-1, never
\* reads images[n], and what it subtracted from t is at most t.
C18_FrameInBounds ==
    Animated =>
       /\ frame_ret.status = "ok"
       /\ frame_ret.ret >= 0
       /\ frame_ret.ret < Len(TheCursor.images)
       /\ Cum(TheCursor.images, frame_ret.ret)
             <= frame_ret.time % TheCursor.total_delay

\* the sum of the delays wrapped, and the walk went past the first frame
C18_Witness ==
    /\ Animated
    /\ Cum(TheCursor.images, Len(TheCursor.images)) >= UintMod
    /\ frame_ret.status = "ok"
    /\ frame_ret.ret >= 1

(***************************************************************************)
(* Destruction                                                             *)
(***************************************************************************)

\* the positions of the requests with operation op
Requests(w, op) == {k \in 1..Len(w) : w[k].op = op}

\* C12: wl_cursor_theme_destroy destroys every buffer that was created
\* exactly once, after its creation and before the pool; the pool is
\* destroyed exactly once, last; nothing is destroyed before the call.
C12_DestroyOrder ==
    /\ pc # "destroyed" =>
          Requests(wire, "destroy_buffer") \cup Requests(wire, "destroy_pool") = {}
    /\ pc = "destroyed" =>
          /\ Requests(wire, "destroy_pool") = {Len(wire)}
          /\ \A k \in Created(wire) :
                \E j \in Requests(wire, "destroy_buffer") :
                   /\ wire[j].obj = wire[k].obj
                   /\ k < j /\ j < Len(wire)
                   /\ \A h \in Requests(wire, "destroy_buffer") :
                         wire[h].obj = wire[k].obj => h = j
          /\ \A j \in Requests(wire, "destroy_buffer") :
                \E k \in Created(wire) : wire[k].obj = wire[j].obj

\* a theme with two buffers and an image without one has been destroyed
C12_Witness ==
    /\ pc = "destroyed"
    /\ Cardinality(Created(wire)) = 2
    /\ Cardinality(Requests(wire, "destroy_buffer")) = 2
    /\ Len(alloc_log) > 2

(***************************************************************************)
(* Growth                                                                  *)
(***************************************************************************)

\* call k of shm_pool_allocate found too little room
NeedsGrowth(log, k) == log[k].pre_used + log[k].size > log[k].pre_size

\* call k grew the pool once to 2 * capacity + size and then succeeded
GrewOnce(log, w, k) ==
    /\ log[k].post_size = 2 * log[k].pre_size + log[k].size
    /\ log[k].post_wire = log[k].pre_wire + 1
    /\ w[log[k].post_wire] = Req("resize_pool", 0, log[k].post_size)
    /\ log[k].ret = log[k].pre_used
    /\ log[k].post_used = log[k].pre_used + log[k].size
    /\ log[k].post_used <= log[k].post_size

\* call k sent no resize and left the capacity alone
NoResize(log, k) ==
    /\ log[k].post_size = log[k].pre_size
    /\ log[k].post_wire = log[k].pre_wire

\* C13 as stated: every allocation that needs growth resizes once to
\* 2 * capacity + size and succeeds at the old used; every other one
\* sends no resize.
C13_GrowthSucceeds ==
    \A k \in 1..Len(alloc_log) :
       IF NeedsGrowth(alloc_log, k)
       THEN GrewOnce(alloc_log, wire, k)
       ELSE NoResize(alloc_log, k) /\ alloc_log[k].ret = alloc_log[k].pre_used

\* C13: an allocation that needs growth either resizes once to
\* 2 * capacity + size and succeeds at the old used, or (ftruncate failed)
\* returns -1 with no resize sent and used and capacity unchanged; an
\* allocation that fits sends no resize and succeeds at the old used.
C13_GrowthOnceOrFails ==
    \A k \in 1..Len(alloc_log) :
       IF NeedsGrowth(alloc_log, k)
       THEN \/ GrewOnce(alloc_log, wire, k)
            \/ /\ alloc_log[k].ret = -1
               /\ NoResize(alloc_log, k)
               /\ alloc_log[k].post_used = alloc_log[k].pre_used
       ELSE NoResize(alloc_log, k) /\ alloc_log[k].ret = alloc_log[k].pre_used

\* a growth from a pool in use, a failed growth and a fitting allocation
C13_Witness ==
    /\ \E k \in 1..Len(alloc_log) :
          /\ NeedsGrowth(alloc_log, k) /\ alloc_log[k].ret > 0
    /\ \E k \in 1..Len(alloc_log) :
          /\ NeedsGrowth(alloc_log, k) /\ alloc_log[k].ret = -1
    /\ \E k \in 1..Len(alloc_log) :
          /\ ~NeedsGrowth(alloc_log, k) /\ alloc_log[k].ret >= 0

\* C14: a successful resize leaves the bytes of every range written before
\* it as they were, and no step changes the offset or the dimensions
\* recorded in an image already built.
C14_GrowthPreserves ==
    [][ /\ \A k \in 1..Len(alloc_log') :
              alloc_log'[k].post_size > alloc_log'[k].pre_size =>
                 alloc_log'[k].post_filled = alloc_log'[k].pre_filled
        /\ \A ci \in Images(theme) \cap Images(theme') :
              /\ Image(theme', ci).offset = Image(theme, ci).offset
              /\ Image(theme', ci).width = Image(theme, ci).width
              /\ Image(theme', ci).height = Image(theme, ci).height ]_vars

\* a resize of a pool that held the pixels of two images, both in the theme
C14_Witness ==
    /\ \E k \in 1..Len(alloc_log) :
          /\ alloc_log[k].post_size > alloc_log[k].pre_size
          /\ Cardinality(alloc_log[k].pre_filled) >= 2
          /\ alloc_log[k].post_filled = alloc_log[k].pre_filled
    /\ Cardinality(Images(theme)) >= 3

\* the byte ranges of images ci and dj share no byte
ImagesDisjoint(th, ci, dj) ==
    \/ Image(th, ci).offset + FrameSize(Image(th, ci).width, Image(th, ci).height)
          <= Image(th, dj).offset
    \/ Image(th, dj).offset + FrameSize(Image(th, dj).width, Image(th, dj).height)
          <= Image(th, ci).offset

\* C15: after a load every image of the theme has offset >= 0 and
\* offset + width * height * 4 <= used <= capacity, and the ranges of two
\* images share no byte.
C15_ImagesWithinPool ==
    pc = "loaded" =>
       /\ pool.used <= pool.size
       /\ \A ci \in Images(theme) :
             /\ Image(theme, ci).offset >= 0
             /\ Image(theme, ci).offset
                   + FrameSize(Image(theme, ci).width, Image(theme, ci).height)
                   <= pool.used
       /\ \A ci, dj \in Images(theme) : ci # dj => ImagesDisjoint(theme, ci, dj)

\* the sum of the delays of the images
RECURSIVE SumDelays(_, _)
SumDelays(images, i) ==
    IF i = 0 THEN 0 ELSE SumDelays(images, i - 1) + images[i].delay

\* C16: every cursor of the theme with more than one frame has
\* total_delay > 0, and total_delay is the sum of the delays of its frames.
C16_TotalDelayPositive ==
    \A c \in 1..Len(theme.cursors) :
       Len(theme.cursors[c].images) > 1 =>
          /\ theme.cursors[c].total_delay > 0
          /\ theme.cursors[c].total_delay
                = SumDelays(theme.cursors[c].images, Len(theme.cursors[c].images))

(***************************************************************************)
(* The pool handle and the mapping                                         *)
(***************************************************************************)

\* the positions of the requests that announce a size of the pool
Announced(w) == Requests(w, "create_pool") \cup Requests(w, "resize_pool")

\* C19: the size last announced by create_pool or resize_pool is at most
\* the length of the file, and each announced size is larger than the
\* ones announced before it.
C19_AnnouncedWithinFile ==
    /\ \A k \in Announced(wire) :
          (\A j \in Announced(wire) : j <= k) => wire[k].arg <= pool.file_len
    /\ \A j, k \in Announced(wire) : j < k => wire[j].arg < wire[k].arg

\* two sizes were announced after the first, and an ftruncate failed
C19_Witness ==
    /\ Cardinality(Requests(wire, "resize_pool")) >= 2
    /\ \E k \in 1..Len(alloc_log) : alloc_log[k].ret = -1
    /\ pc = "loaded"

\* C20: whenever shm_pool_allocate returns an offset the pool holds a
\* mapping of the file.
C20_SuccessImpliesMapped ==
    \A k \in Successful(alloc_log) : alloc_log[k].post_mapped

=============================================================================
